---- MODULE Spec2Model ----
(***************************************************************************)
(* Model of src/index.js: the POST /combine handler of the image combiner. *)
(* One request is followed from its arrival to its response.  Every await  *)
(* of the handler is a point where the tasks it started (downloads,        *)
(* metadata probes, resizes, the final composite) complete in any order.   *)
(***************************************************************************)
EXTENDS Integers, Sequences, FiniteSets

VARIABLES
  pc,               \* position of the handler: idle, an await, or done
  body,             \* req.body: [scene_number, input]
  imageUrls,        \* indices of input whose uploaded_image_url is usable
  downloads,        \* per url: state of downloadImage(url)
  metadata,         \* per image: state of sharp(buffer).metadata()
  imageMetadata,    \* per image: [width, height] read by metadata()
  heightPerImage,   \* line 152
  newSize,          \* per image: [width, height] = newWidth, newHeight
  resizes,          \* per image: state of sharp(buffer).resize().toBuffer()
  yOffset,          \* the shared accumulator of line 155
  compositeImages,  \* per image: [left, top] handed to composite()
  canvas,           \* [width, height] of the created canvas
  response,         \* what res sent: [status, kind, message]
  thrown,           \* the errors raised so far by any step of the request
  downloadsIssued   \* number of axios.get calls made

vars == <<pc, body, imageUrls, downloads, metadata, imageMetadata,
          heightPerImage, newSize, resizes, yOffset, compositeImages,
          canvas, response, thrown, downloadsIssued>>

----------------------------------------------------------------------------
(* Bounds of the model *)

MaxVisuals == 3

(* Program constants *)

canvasWidth == 1080
canvasHeight == 1920
padding == 20

----------------------------------------------------------------------------
(* Request bodies *)

Undefined == [type |-> "undefined", value |-> 0]
Num(v) == [type |-> "number", value |-> v]

\* scene_number values a JSON body can carry (or omit)
SceneNumbers == {Undefined, Num(0), Num(3)}

\* An element of input: an object with a non-empty uploaded_image_url, an
\* object without the field, an object whose field is "", a null, or a
\* primitive (number, string, boolean).
VisualKinds == {"url", "nofield", "emptyurl", "null", "primitive"}

RECURSIVE SeqsUpTo(_, _)
SeqsUpTo(S, n) ==
  IF n = 0 THEN {<<>>}
  ELSE LET shorter == SeqsUpTo(S, n - 1)
       IN shorter \cup {Append(s, x) : s \in {t \in shorter : Len(t) = n - 1}, x \in S}

NonArrayTypes == {"undefined", "null", "object", "string", "number"}

Inputs ==
  {[type |-> t, items |-> <<>>] : t \in NonArrayTypes}
    \cup {[type |-> "array", items |-> s] : s \in SeqsUpTo(VisualKinds, MaxVisuals)}

Bodies == [scene_number : SceneNumbers, input : Inputs]

\* Source images: pixel dimensions a decoded image can have.
Dims == {[width |-> 400,  height |-> 300],
         [width |-> 300,  height |-> 900],
         [width |-> 11,   height |-> 11],
         [width |-> 2160, height |-> 1],
         [width |-> 1,    height |-> 3840]}

NoSize == [width |-> 0, height |-> 0]
NoComposite == [left |-> -1, top |-> -1]

----------------------------------------------------------------------------
(* Validation and URL extraction, lines 48-68 *)

\* JavaScript truthiness of scene_number (line 51: !scene_number)
Truthy(v) == v.type = "number" /\ v.value # 0

\* A check that only asks for the field to be present
IsArrayMutant(input) == input.type # "undefined"
\* Array.isArray(input), line 58
IsArray(input) == input.type = "array"

\* visual.uploaded_image_url on a null element raises a TypeError (line 67)
FilterThrows(items) == \E i \in 1..Len(items) : items[i] = "null"

\* A filter that tests the presence of the field, not its value
UsableUrlMutant(kind) == kind \in {"url", "emptyurl"}
\* the filter predicate of line 67: the field's value is truthy
UsableUrl(kind) == kind = "url"

\* lines 66-68: the positions of input that yield a URL, in input order
ExtractUrls(items) == SelectSeq([i \in 1..Len(items) |-> i], LAMBDA i : UsableUrl(items[i]))

----------------------------------------------------------------------------
(* Responses *)

Msg(text, index) == [text |-> text, index |-> index]
NoMsg == Msg("", 0)

\* res: nothing sent yet
NoResponse ==
  [status |-> 0, kind |-> "none", message |-> NoMsg, scene_number |-> Undefined,
   original_count |-> -1]
\* lines 52-55
SceneNumberRequired ==
  [status |-> 400, kind |-> "error", message |-> Msg("scene_number is required", 0),
   scene_number |-> Undefined, original_count |-> -1]
\* lines 59-62
InputMustBeArray ==
  [status |-> 400, kind |-> "error",
   message |-> Msg("input must be an array of visuals", 0),
   scene_number |-> Undefined, original_count |-> -1]
\* lines 214-219 (combined_image_url is null in this body)
NoImagesFound(sn) ==
  [status |-> 200, kind |-> "noimages", message |-> Msg("No images found to combine", 0),
   scene_number |-> sn, original_count |-> 0]
\* lines 122-128 and 204-210: the PNG, named after the scene
PngResponse(sn) ==
  [status |-> 200, kind |-> "png", message |-> NoMsg, scene_number |-> sn,
   original_count |-> -1]

\* A catch block that answers as if the request had succeeded
ProcessingErrorMutant(err) ==
  [status |-> 200, kind |-> "png", message |-> err, scene_number |-> Undefined,
   original_count |-> -1]
\* the catch block, lines 221-227: error.message is passed through
ProcessingError(err) ==
  [status |-> 500, kind |-> "error", message |-> err, scene_number |-> Undefined,
   original_count |-> -1]

----------------------------------------------------------------------------
(* Layout arithmetic *)

RECURSIVE GCD(_, _)
GCD(a, b) == IF b = 0 THEN a ELSE GCD(b, a % b)

RECURSIVE IsPowerOfTwo(_)
IsPowerOfTwo(n) == IF n <= 1 THEN n = 1 ELSE n % 2 = 0 /\ IsPowerOfTwo(n \div 2)

\* Math.floor(x * scale) for scale = num / den computed in IEEE doubles.
\* The quotient num/den is rounded unless den/gcd is a power of two; the
\* product of x with a rounded quotient can fall just below an integral
\* exact value, so the floor is then the exact value or one less.
FloorScaled(x, num, den) ==
  LET q == (x * num) \div den
      integral == (x * num) % den = 0
      representable == IsPowerOfTwo(den \div GCD(num, den))
  IN IF integral /\ ~representable THEN {q - 1, q} ELSE {q}

\* Math.max in place of Math.min: scale to cover instead of to fit
ScaleToFitMutant(meta, boxWidth, boxHeight) ==
  LET byWidth == boxWidth * meta.height >= boxHeight * meta.width
      num == IF byWidth THEN boxWidth ELSE boxHeight
      den == IF byWidth THEN meta.width ELSE meta.height
  IN {[width |-> nw, height |-> nh] :
        nw \in FloorScaled(meta.width, num, den),
        nh \in FloorScaled(meta.height, num, den)}
\* lines 85-90 and 161-166: scale = Math.min(widthScale, heightScale),
\* newWidth = floor(width * scale), newHeight = floor(height * scale)
ScaleToFit(meta, boxWidth, boxHeight) ==
  LET byWidth == boxWidth * meta.height <= boxHeight * meta.width
      num == IF byWidth THEN boxWidth ELSE boxHeight
      den == IF byWidth THEN meta.width ELSE meta.height
  IN {[width |-> nw, height |-> nh] :
        nw \in FloorScaled(meta.width, num, den),
        nh \in FloorScaled(meta.height, num, den)}

\* Padding counted between the images only, not around them
AvailableHeightMutant(n) == canvasHeight - (padding * (n - 1))
\* line 151
AvailableHeight(n) == canvasHeight - (padding * (n + 1))

\* line 152
HeightPerImage(n) == AvailableHeight(n) \div n

\* lines 101-102 and 177: Math.floor((span - size) / 2)
Center(span, size) == (span - size) \div 2

\* The accumulator advanced without the padding
NextYOffsetMutant(y, newHeight) == y + newHeight
\* line 185
NextYOffset(y, newHeight) == y + newHeight + padding

\* sharp's resize(width, height) accepts positive integers only
ValidResize(size) == size.width >= 1 /\ size.height >= 1

----------------------------------------------------------------------------
(* State *)

N == Len(imageUrls)

AllIn(f, state) == \A i \in 1..Len(f) : f[i] = state

Pending(n) == [i \in 1..n |-> "pending"]

Err(step, index) == Msg(step, index)

Init ==
  /\ pc = "idle"
  /\ body = [scene_number |-> Undefined, input |-> [type |-> "undefined", items |-> <<>>]]
  /\ imageUrls = <<>>
  /\ downloads = <<>>
  /\ metadata = <<>>
  /\ imageMetadata = <<>>
  /\ heightPerImage = 0
  /\ newSize = <<>>
  /\ resizes = <<>>
  /\ yOffset = 0
  /\ compositeImages = <<>>
  /\ canvas = NoSize
  /\ response = NoResponse
  /\ thrown = <<>>
  /\ downloadsIssued = 0

\* The handler returns or reaches its catch block: the response is sent.
Respond(r) ==
  /\ response' = r
  /\ pc' = "done"

\* A task of the request rejects.  While the handler awaits it (directly or
\* through Promise.all) control passes to the catch block; a rejection
\* that arrives after the handler has left is dropped.
Reject(err) ==
  /\ thrown' = Append(thrown, err)
  /\ IF pc = "done"
       THEN UNCHANGED <<response, pc>>
       ELSE Respond(ProcessingError(err))

----------------------------------------------------------------------------
(* The handler from the arrival of the request to its first await *)

\* lines 51-56
RejectSceneNumber(b) ==
  /\ ~Truthy(b.scene_number)
  /\ body' = b
  /\ Respond(SceneNumberRequired)
  /\ UNCHANGED <<imageUrls, downloads, metadata, imageMetadata, heightPerImage,
                 newSize, resizes, yOffset, compositeImages, canvas, thrown,
                 downloadsIssued>>

\* lines 58-63
RejectInput(b) ==
  /\ Truthy(b.scene_number)
  /\ ~IsArray(b.input)
  /\ body' = b
  /\ Respond(InputMustBeArray)
  /\ UNCHANGED <<imageUrls, downloads, metadata, imageMetadata, heightPerImage,
                 newSize, resizes, yOffset, compositeImages, canvas, thrown,
                 downloadsIssued>>

Validated(b) == Truthy(b.scene_number) /\ IsArray(b.input)

\* lines 66-68 raising inside the filter callback, caught at 221-227
ExtractThrows(b) ==
  /\ Validated(b)
  /\ FilterThrows(b.input.items)
  /\ body' = b
  /\ Reject(Err("TypeError", 0))
  /\ UNCHANGED <<imageUrls, downloads, metadata, imageMetadata, heightPerImage,
                 newSize, resizes, yOffset, compositeImages, canvas,
                 downloadsIssued>>

\* lines 66-68, 71, 132 and 214-219
NoImages(b) ==
  /\ Validated(b)
  /\ ~FilterThrows(b.input.items)
  /\ Len(ExtractUrls(b.input.items)) = 0
  /\ body' = b
  /\ imageUrls' = ExtractUrls(b.input.items)
  /\ Respond(NoImagesFound(b.scene_number))
  /\ UNCHANGED <<downloads, metadata, imageMetadata, heightPerImage, newSize,
                 resizes, yOffset, compositeImages, canvas, thrown,
                 downloadsIssued>>

\* lines 66-79: one URL, downloadImage is called and awaited
StartSingle(b) ==
  /\ Validated(b)
  /\ ~FilterThrows(b.input.items)
  /\ Len(ExtractUrls(b.input.items)) = 1
  /\ body' = b
  /\ imageUrls' = ExtractUrls(b.input.items)
  /\ downloads' = Pending(1)
  /\ downloadsIssued' = downloadsIssued + 1
  /\ pc' = "awaitDownload"
  /\ UNCHANGED <<metadata, imageMetadata, heightPerImage, newSize, resizes,
                 yOffset, compositeImages, canvas, response, thrown>>

\* lines 66-68 and 132-143: every download is started before any is awaited
StartMulti(b) ==
  /\ Validated(b)
  /\ ~FilterThrows(b.input.items)
  /\ Len(ExtractUrls(b.input.items)) > 1
  /\ body' = b
  /\ imageUrls' = ExtractUrls(b.input.items)
  /\ downloads' = Pending(Len(ExtractUrls(b.input.items)))
  /\ downloadsIssued' = downloadsIssued + Len(ExtractUrls(b.input.items))
  /\ pc' = "awaitDownload"
  /\ UNCHANGED <<metadata, imageMetadata, heightPerImage, newSize, resizes,
                 yOffset, compositeImages, canvas, response, thrown>>

----------------------------------------------------------------------------
(* One image: lines 71-129 *)

\* line 79 resolves; line 82 asks for the metadata
SingleDownloadOk ==
  /\ pc = "awaitDownload"
  /\ N = 1
  /\ downloads' = <<"ok">>
  /\ metadata' = Pending(1)
  /\ pc' = "awaitMetadata"
  /\ UNCHANGED <<body, imageUrls, imageMetadata, heightPerImage, newSize, resizes,
                 yOffset, compositeImages, canvas, response, thrown, downloadsIssued>>

\* line 79 rejects (network error, HTTP error status)
SingleDownloadFail ==
  /\ pc = "awaitDownload"
  /\ N = 1
  /\ downloads' = <<"failed">>
  /\ Reject(Err("download", 1))
  /\ UNCHANGED <<body, imageUrls, metadata, imageMetadata, heightPerImage, newSize,
                 resizes, yOffset, compositeImages, canvas, downloadsIssued>>

\* line 82 resolves with the image's size; lines 85-98 scale it to the
\* canvas and call resize, which raises on a dimension below 1
SingleMetadataOk(meta, size) ==
  /\ pc = "awaitMetadata"
  /\ N = 1
  /\ size \in ScaleToFit(meta, canvasWidth, canvasHeight)
  /\ metadata' = <<"ok">>
  /\ imageMetadata' = <<meta>>
  /\ newSize' = <<size>>
  /\ IF ValidResize(size)
       THEN /\ resizes' = Pending(1)
            /\ pc' = "awaitResize"
            /\ UNCHANGED <<response, thrown>>
       ELSE /\ resizes' = <<"failed">>
            /\ Reject(Err("resize", 1))
  /\ UNCHANGED <<body, imageUrls, downloads, heightPerImage, yOffset,
                 compositeImages, canvas, downloadsIssued>>

\* line 82 rejects: the buffer is no image sharp can decode
SingleMetadataFail ==
  /\ pc = "awaitMetadata"
  /\ N = 1
  /\ metadata' = <<"failed">>
  /\ Reject(Err("metadata", 1))
  /\ UNCHANGED <<body, imageUrls, downloads, imageMetadata, heightPerImage, newSize,
                 resizes, yOffset, compositeImages, canvas, downloadsIssued>>

\* lines 93-98 resolve; lines 101-119 center the image and start the composite
SingleResizeOk ==
  /\ pc = "awaitResize"
  /\ N = 1
  /\ resizes' = <<"ok">>
  /\ yOffset' = Center(canvasHeight, newSize[1].height)
  /\ compositeImages' = <<[left |-> Center(canvasWidth, newSize[1].width),
                           top |-> Center(canvasHeight, newSize[1].height)]>>
  /\ canvas' = [width |-> canvasWidth, height |-> canvasHeight]
  /\ pc' = "awaitComposite"
  /\ UNCHANGED <<body, imageUrls, downloads, metadata, imageMetadata, heightPerImage,
                 newSize, response, thrown, downloadsIssued>>

\* lines 93-98 reject
SingleResizeFail ==
  /\ pc = "awaitResize"
  /\ N = 1
  /\ resizes' = <<"failed">>
  /\ Reject(Err("resize", 1))
  /\ UNCHANGED <<body, imageUrls, downloads, metadata, imageMetadata, heightPerImage,
                 newSize, yOffset, compositeImages, canvas, downloadsIssued>>

\* lines 105-119 resolve; lines 122-128 send the PNG
SingleCompositeOk ==
  /\ pc = "awaitComposite"
  /\ N = 1
  /\ Respond(PngResponse(body.scene_number))
  /\ UNCHANGED <<body, imageUrls, downloads, metadata, imageMetadata, heightPerImage,
                 newSize, resizes, yOffset, compositeImages, canvas, thrown,
                 downloadsIssued>>

\* lines 105-119 reject
SingleCompositeFail ==
  /\ pc = "awaitComposite"
  /\ N = 1
  /\ Reject(Err("composite", 0))
  /\ UNCHANGED <<body, imageUrls, downloads, metadata, imageMetadata, heightPerImage,
                 newSize, resizes, yOffset, compositeImages, canvas, downloadsIssued>>

----------------------------------------------------------------------------
(* Several images: lines 132-211 *)

\* one downloadImage(url) of line 142 resolves
DownloadOk(i) ==
  /\ N > 1
  /\ i \in 1..Len(downloads)
  /\ downloads[i] = "pending"
  /\ downloads' = [downloads EXCEPT ![i] = "ok"]
  /\ UNCHANGED <<pc, body, imageUrls, metadata, imageMetadata, heightPerImage,
                 newSize, resizes, yOffset, compositeImages, canvas, response,
                 thrown, downloadsIssued>>

\* one downloadImage(url) rejects: Promise.all of line 141 rejects with it
DownloadFail(i) ==
  /\ N > 1
  /\ i \in 1..Len(downloads)
  /\ downloads[i] = "pending"
  /\ downloads' = [downloads EXCEPT ![i] = "failed"]
  /\ Reject(Err("download", i))
  /\ UNCHANGED <<body, imageUrls, metadata, imageMetadata, heightPerImage, newSize,
                 resizes, yOffset, compositeImages, canvas, downloadsIssued>>

\* Promise.all of line 141 resolves; lines 146-148 ask for every metadata
ResumeAfterDownloads ==
  /\ pc = "awaitDownload"
  /\ N > 1
  /\ AllIn(downloads, "ok")
  /\ metadata' = Pending(N)
  /\ imageMetadata' = [i \in 1..N |-> NoSize]
  /\ pc' = "awaitMetadata"
  /\ UNCHANGED <<body, imageUrls, downloads, heightPerImage, newSize, resizes,
                 yOffset, compositeImages, canvas, response, thrown, downloadsIssued>>

\* one metadata() of line 147 resolves
MetadataOk(i, meta) ==
  /\ N > 1
  /\ i \in 1..Len(metadata)
  /\ metadata[i] = "pending"
  /\ metadata' = [metadata EXCEPT ![i] = "ok"]
  /\ imageMetadata' = [imageMetadata EXCEPT ![i] = meta]
  /\ UNCHANGED <<pc, body, imageUrls, downloads, heightPerImage, newSize, resizes,
                 yOffset, compositeImages, canvas, response, thrown, downloadsIssued>>

\* one metadata() rejects: Promise.all of line 146 rejects with it
MetadataFail(i) ==
  /\ N > 1
  /\ i \in 1..Len(metadata)
  /\ metadata[i] = "pending"
  /\ metadata' = [metadata EXCEPT ![i] = "failed"]
  /\ Reject(Err("metadata", i))
  /\ UNCHANGED <<body, imageUrls, downloads, imageMetadata, heightPerImage, newSize,
                 resizes, yOffset, compositeImages, canvas, downloadsIssued>>

\* the sizes lines 161-166 can compute for the images, one choice per image
RECURSIVE SizeChoices(_, _)
SizeChoices(metas, boxHeight) ==
  IF metas = <<>> THEN {<<>>}
  ELSE {<<size>> \o rest :
          size \in ScaleToFit(Head(metas), canvasWidth - 2 * padding, boxHeight),
          rest \in SizeChoices(Tail(metas), boxHeight)}

\* the errors resize raises at line 170, in the order map reaches them
RECURSIVE ResizeErrors(_, _)
ResizeErrors(sizes, i) ==
  IF i > Len(sizes) THEN <<>>
  ELSE (IF ValidResize(sizes[i]) THEN <<>> ELSE <<Err("resize", i)>>)
         \o ResizeErrors(sizes, i + 1)

\* Promise.all of line 146 resolves.  Lines 151-155 fix the allotted height
\* and the accumulator; map (line 157) runs every callback up to its await:
\* lines 158-174 compute the size and start the resize, or raise.
StartResizes(sizes) ==
  /\ heightPerImage' = HeightPerImage(N)
  /\ yOffset' = padding
  /\ newSize' = sizes
  /\ resizes' = [i \in 1..N |-> IF ValidResize(sizes[i]) THEN "pending" ELSE "failed"]
  /\ compositeImages' = [i \in 1..N |-> NoComposite]
  /\ LET errors == ResizeErrors(sizes, 1)
     IN IF errors = <<>>
          THEN /\ pc' = "awaitResize"
               /\ UNCHANGED <<response, thrown>>
          ELSE /\ thrown' = thrown \o errors
               /\ Respond(ProcessingError(Head(errors)))
  /\ UNCHANGED <<body, imageUrls, downloads, metadata, imageMetadata, canvas,
                 downloadsIssued>>

ResumeAfterMetadata ==
  /\ pc = "awaitMetadata"
  /\ N > 1
  /\ AllIn(metadata, "ok")
  /\ \E sizes \in SizeChoices(imageMetadata, HeightPerImage(N)) : StartResizes(sizes)

\* one resize of lines 169-174 resolves; its callback goes on with lines
\* 177-186: it reads yOffset as it is now and advances it
ResizeOk(i) ==
  /\ N > 1
  /\ i \in 1..Len(resizes)
  /\ resizes[i] = "pending"
  /\ resizes' = [resizes EXCEPT ![i] = "ok"]
  /\ compositeImages' =
       [compositeImages EXCEPT ![i] = [left |-> Center(canvasWidth, newSize[i].width),
                                       top |-> yOffset]]
  /\ yOffset' = NextYOffset(yOffset, newSize[i].height)
  /\ UNCHANGED <<pc, body, imageUrls, downloads, metadata, imageMetadata,
                 heightPerImage, newSize, canvas, response, thrown, downloadsIssued>>

\* one resize rejects: Promise.all of line 156 rejects with it
ResizeFail(i) ==
  /\ N > 1
  /\ i \in 1..Len(resizes)
  /\ resizes[i] = "pending"
  /\ resizes' = [resizes EXCEPT ![i] = "failed"]
  /\ Reject(Err("resize", i))
  /\ UNCHANGED <<body, imageUrls, downloads, metadata, imageMetadata, heightPerImage,
                 newSize, yOffset, compositeImages, canvas, downloadsIssued>>

\* Promise.all of line 156 resolves; lines 191-201 start the composite
ResumeAfterResizes ==
  /\ pc = "awaitResize"
  /\ N > 1
  /\ AllIn(resizes, "ok")
  /\ canvas' = [width |-> canvasWidth, height |-> canvasHeight]
  /\ pc' = "awaitComposite"
  /\ UNCHANGED <<body, imageUrls, downloads, metadata, imageMetadata, heightPerImage,
                 newSize, resizes, yOffset, compositeImages, response, thrown,
                 downloadsIssued>>

\* lines 191-201 resolve; lines 204-210 send the PNG
MultiCompositeOk ==
  /\ pc = "awaitComposite"
  /\ N > 1
  /\ Respond(PngResponse(body.scene_number))
  /\ UNCHANGED <<body, imageUrls, downloads, metadata, imageMetadata, heightPerImage,
                 newSize, resizes, yOffset, compositeImages, canvas, thrown,
                 downloadsIssued>>

\* lines 191-201 reject
MultiCompositeFail ==
  /\ pc = "awaitComposite"
  /\ N > 1
  /\ Reject(Err("composite", 0))
  /\ UNCHANGED <<body, imageUrls, downloads, metadata, imageMetadata, heightPerImage,
                 newSize, resizes, yOffset, compositeImages, canvas, downloadsIssued>>

----------------------------------------------------------------------------
(* Specification *)

Next ==
  \/ pc = "idle" /\ \E b \in Bodies : RejectSceneNumber(b)
  \/ pc = "idle" /\ \E b \in Bodies : RejectInput(b)
  \/ pc = "idle" /\ \E b \in Bodies : ExtractThrows(b)
  \/ pc = "idle" /\ \E b \in Bodies : NoImages(b)
  \/ pc = "idle" /\ \E b \in Bodies : StartSingle(b)
  \/ pc = "idle" /\ \E b \in Bodies : StartMulti(b)
  \/ SingleDownloadOk
  \/ SingleDownloadFail
  \/ \E meta \in Dims : \E size \in ScaleToFit(meta, canvasWidth, canvasHeight) :
       SingleMetadataOk(meta, size)
  \/ SingleMetadataFail
  \/ SingleResizeOk
  \/ SingleResizeFail
  \/ SingleCompositeOk
  \/ SingleCompositeFail
  \/ \E i \in 1..MaxVisuals : DownloadOk(i)
  \/ \E i \in 1..MaxVisuals : DownloadFail(i)
  \/ ResumeAfterDownloads
  \/ \E i \in 1..MaxVisuals, meta \in Dims : MetadataOk(i, meta)
  \/ \E i \in 1..MaxVisuals : MetadataFail(i)
  \/ ResumeAfterMetadata
  \/ \E i \in 1..MaxVisuals : ResizeOk(i)
  \/ \E i \in 1..MaxVisuals : ResizeFail(i)
  \/ ResumeAfterResizes
  \/ MultiCompositeOk
  \/ MultiCompositeFail

Spec == Init /\ [][Next]_vars

----------------------------------------------------------------------------
(* The layout arithmetic on its own, for image counts beyond those a       *)
(* request of the model carries: lines 151-152 and 161-166 applied to      *)
(* count images of one size.                                               *)

MaxCount == 100

ComputeLayout(count, meta, size) ==
  /\ pc = "idle"
  /\ size \in ScaleToFit(meta, canvasWidth - 2 * padding, HeightPerImage(count))
  /\ imageUrls' = [i \in 1..count |-> i]
  /\ imageMetadata' = [i \in 1..count |-> meta]
  /\ heightPerImage' = HeightPerImage(count)
  /\ newSize' = [i \in 1..count |-> size]
  /\ pc' = "layout"
  /\ UNCHANGED <<body, downloads, metadata, resizes, yOffset, compositeImages,
                 canvas, response, thrown, downloadsIssued>>

LayoutNext ==
  \E count \in 2..MaxCount, meta \in Dims :
    \E size \in ScaleToFit(meta, canvasWidth - 2 * padding, HeightPerImage(count)) :
      ComputeLayout(count, meta, size)

SpecLayout == Init /\ [][LayoutNext]_vars

----------------------------------------------------------------------------
(* Properties *)

FailureSteps == {"download", "metadata", "resize", "composite"}

StepFailed == \E k \in 1..Len(thrown) : thrown[k].text \in FailureSteps

\* C1: once a download or an image decode/processing step of the request
\* has failed, the response is status 500 with the message of the error
\* that reached the catch block (the first one raised), and it is never a
\* PNG; this includes one failed download among several that succeed.
C1_FailureAnswered500 ==
  StepFailed =>
    /\ response.status = 500
    /\ response.kind = "error"
    /\ response.message = thrown[1]
    /\ thrown[1].text \in FailureSteps

\* C1 witness: of several concurrent downloads exactly one failed, the
\* others succeeded, and the request was answered 500 with its message.
C1_Witness ==
  /\ Len(downloads) > 1
  /\ \E i \in 1..Len(downloads) :
       /\ downloads[i] = "failed"
       /\ \A j \in 1..Len(downloads) : j # i => downloads[j] = "ok"
       /\ response.message = Msg("download", i)
  /\ response.status = 500

\* C2: a request whose input is not an array is answered 400 whatever its
\* scene_number, and no download is issued for it.
C2_NonArrayInput400 ==
  (pc # "idle" /\ body.input.type # "array") =>
    /\ response.status = 400
    /\ downloadsIssued = 0
    /\ downloads = <<>>

\* C2 witness: a request with a valid scene_number and a string for input
\* was answered 400.
C2_Witness ==
  /\ pc = "done"
  /\ body.scene_number = Num(3)
  /\ body.input.type = "string"
  /\ response.status = 400
  /\ response.message.text = "input must be an array of visuals"

NoUsableUrl(items) ==
  \A i \in 1..Len(items) : items[i] \in {"nofield", "emptyurl", "primitive"}

\* C3: a request that passes validation and whose input holds no visual
\* with a usable uploaded_image_url (an empty array, or visuals that lack
\* the field or carry an empty value) is answered with the "no images"
\* JSON: its scene_number, original_count 0 and the message; no download,
\* resize or composite is started.
C3_NoImagesJson ==
  (/\ pc # "idle"
   /\ body.scene_number.type = "number" /\ body.scene_number.value # 0
   /\ body.input.type = "array"
   /\ NoUsableUrl(body.input.items)) =>
    /\ response.status = 200
    /\ response.kind = "noimages"
    /\ response.scene_number = body.scene_number
    /\ response.original_count = 0
    /\ response.message.text = "No images found to combine"
    /\ downloadsIssued = 0
    /\ downloads = <<>> /\ metadata = <<>> /\ resizes = <<>>
    /\ compositeImages = <<>> /\ canvas = NoSize

\* C3 witness: visuals with an empty URL and without the field, answered
\* with the "no images" JSON.
C3_Witness ==
  /\ pc = "done"
  /\ body.input.items = <<"emptyurl", "nofield">>
  /\ response.kind = "noimages"
  /\ response.scene_number = Num(3)

LayoutComputed == N > 1 /\ Len(newSize) = N

\* C4 as stated: for N > 1 the allotted heights plus all padding equal the
\* canvas height, N * heightPerImage + padding * (N + 1) = 1920.
C4_SpansFillCanvas ==
  LayoutComputed => N * heightPerImage + 20 * (N + 1) = 1920

\* C4 as amended: for N > 1 the allotted heights plus all padding never
\* exceed the canvas height and fall short of it by less than N pixels.
C4_SpansWithinCanvas ==
  LayoutComputed =>
    /\ N * heightPerImage + 20 * (N + 1) <= 1920
    /\ N * heightPerImage + 20 * (N + 1) > 1920 - N

\* C4 witness: three images are allotted 613 pixels each, 1919 in all.
C4_Witness ==
  /\ LayoutComputed
  /\ N = 3
  /\ heightPerImage = 613

\* C5: for one image the scaled size fits the canvas, the offsets are the
\* floors of half the free space and are not negative, the margins on
\* opposite sides differ by at most one pixel, and the canvas is 1080x1920.
C5_SingleImageCentered ==
  (N = 1 /\ Len(newSize) = 1) =>
    LET w == newSize[1].width
        h == newSize[1].height
    IN /\ w <= 1080
       /\ h <= 1920
       /\ Len(compositeImages) = 1 =>
            LET left == compositeImages[1].left
                top == compositeImages[1].top
                right == 1080 - w - left
                bottom == 1920 - h - top
            IN /\ canvas = [width |-> 1080, height |-> 1920]
               /\ left >= 0 /\ top >= 0
               /\ 2 * left <= 1080 - w /\ 1080 - w < 2 * left + 2
               /\ 2 * top <= 1920 - h /\ 1920 - h < 2 * top + 2
               /\ right - left \in {0, 1}
               /\ bottom - top \in {0, 1}

\* C5 witness: a 400x300 image was sent as a PNG, scaled to 1080x810 and
\* placed at left 0, top 555.
C5_Witness ==
  /\ N = 1
  /\ response.kind = "png"
  /\ imageMetadata = <<[width |-> 400, height |-> 300]>>
  /\ newSize = <<[width |-> 1080, height |-> 810]>>
  /\ compositeImages = <<[left |-> 0, top |-> 555]>>

\* C6 as stated: the answer is 400 'scene_number is required' exactly
\* when scene_number is absent, and a numeric scene_number (0 included)
\* with an array input is never answered 400.
C6_RequiredOnlyWhenAbsent ==
  pc = "done" =>
    /\ (response.message.text = "scene_number is required")
         <=> (body.scene_number.type = "undefined")
    /\ (body.scene_number.type = "number" /\ body.input.type = "array")
         => response.status # 400

HasMalformedElement(items) ==
  \E i \in 1..Len(items) : items[i] \in {"null", "primitive"}

\* C7 as stated: no request is answered 500 before a download has been
\* attempted, and an input array with null or non-object elements is
\* answered 400.
C7_MalformedShapeIs400 ==
  /\ response.status = 500 => downloadsIssued >= 1
  /\ (/\ pc = "done"
      /\ body.scene_number.type = "number" /\ body.scene_number.value # 0
      /\ body.input.type = "array"
      /\ HasMalformedElement(body.input.items)) => response.status = 400

RECURSIVE InputOrderTop(_)
InputOrderTop(i) ==
  IF i = 1 THEN 20 ELSE InputOrderTop(i - 1) + newSize[i - 1].height + 20

\* C8 as stated: whatever the order in which the resizes complete, the
\* image at input index i is placed at top = padding + the sum over j < i
\* of (newHeight_j + padding).
C8_TopsInInputOrder ==
  (N > 1 /\ canvas # NoSize) =>
    \A i \in 1..N : compositeImages[i].top = InputOrderTop(i)

\* C9 as stated: for every N >= 1 and every image of positive size the
\* layout yields newWidth >= 1 and newHeight >= 1, and heightPerImage is
\* positive for N > 1.
C9_SizesPositive ==
  (N >= 1 /\ Len(newSize) = N) =>
    /\ \A i \in 1..N : newSize[i].width >= 1 /\ newSize[i].height >= 1
    /\ N > 1 => heightPerImage > 0

\* C10: when a request of several images reaches the composite step, then
\* whatever the order of the resizes every image has top >= 20 and
\* 20 <= left, left + newWidth <= 1060, the vertical spans of two images
\* are at least 20 pixels apart, and the accumulated yOffset is <= 1920.
C10_NoOverlapWithinCanvas ==
  (N > 1 /\ canvas # NoSize) =>
    /\ \A i \in 1..N :
         /\ compositeImages[i].top >= 20
         /\ compositeImages[i].left >= 20
         /\ compositeImages[i].left + newSize[i].width <= 1060
    /\ \A i, j \in 1..N :
         i # j =>
           \/ compositeImages[i].top + newSize[i].height + 20 <= compositeImages[j].top
           \/ compositeImages[j].top + newSize[j].height + 20 <= compositeImages[i].top
    /\ yOffset <= 1920

\* C10 witness: the PNG of a request whose second image was resized, and
\* so placed, before its first.
C10_Witness ==
  /\ N > 1
  /\ canvas # NoSize
  /\ response.kind = "png"
  /\ compositeImages[2].top < compositeImages[1].top

====
